---- MODULE Spec2Model ----
(***************************************************************************)
(* Model of the LXD node allocator of spread-adhoc-allocator (src/lxd.rs). *)
(*                                                                         *)
(* One client thread runs the public operations of LxdAllocator and of the *)
(* LxdAllocatorExecutor implementation LxdCliAllocator.  Every step of the *)
(* client is one lxc command handed to the LxcRunner together with the     *)
(* code that follows it up to the next command.  The LXD backend is the    *)
(* pair (projects, instances); it answers the commands and changes on its  *)
(* own between them (instances boot, get addresses, stop and vanish).      *)
(*                                                                         *)
(* Strings whose characters matter (system names, instance names,         *)
(* addresses) are sequences of one-character strings.  Sizes are counted   *)
(* in MiB instead of bytes to stay inside TLC's integers.                  *)
(***************************************************************************)
EXTENDS Integers, Sequences, FiniteSets, TLC

VARIABLES
    conf,        \* LxdAllocator.conf: [system, setup]
    other,       \* a second client process allocating on the same backend
    projects,    \* backend: names of the existing projects
    instances,   \* backend: instances of project spread-adhoc, listing order
    op,          \* public operation in progress
    arg,         \* its argument: system name, address or project
    pc,          \* position of the client inside the operation
    calls,       \* commands handed to the runner by the operation, in order
    outs,        \* what the runner returned for each of them: TRUE is Ok
    base,        \* number of commands issued before the executor's allocate
    node,        \* LxdNodeDetails handed to the executor's allocate
    name,        \* allocate: lxdfy_name(node.name)
    found,       \* ensure_project: result of the search in the listing
    listing,     \* ensure_project: the parsed project listing
    nodes,       \* deallocate_*: the parsed instance listing
    instance,    \* wait_for_address: the instance of the last poll
    addr,        \* wait_for_address: Option<Ipv4Addr>
    elapsed,     \* wait_for_address: now.elapsed() in ms
    polls,       \* wait_for_address: iterations of the loop so far
    idx,         \* provision / deallocate_all: steps or nodes done so far
    target,      \* deallocate_by_addr: Option<String> name
    result       \* what the operation returned

vars == <<conf, other, projects, instances, op, arg, pc, calls, outs, base, node, name,
          found, listing, nodes, instance, addr, elapsed, polls, idx,
          target, result>>

backend == <<projects, instances>>
locals == <<base, node, name, found, listing, nodes, instance, addr,
            elapsed, polls, idx, target>>

----------------------------------------------------------------------------
(* Bounds of the model *)

\* most instances the backend holds; a launch beyond it is refused
MaxInstances == 2
\* most iterations of the polling loop that are followed
MaxPolls == 3
\* the longest name given to lxdfy_name on its own
MaxNameLen == 3
\* the longest stderr of a process run by LxcCommandRunner
MaxErrLen == 3

----------------------------------------------------------------------------
(* Constants of the program *)

LXD_PROJECT_NAME == "spread-adhoc"
SleepMs == 500
TimeoutMs == 60000
SshPort == 22

\* time a poll takes on top of the sleep: the list command itself
CmdDurations == {0, 30000}

Digits == <<"0", "1", "2", "3", "4", "5", "6", "7", "8", "9">>

----------------------------------------------------------------------------
(* Strings *)

\* a transform that replaces the dots only
lxdfy_name_DotsOnly(n) ==
    [i \in 1..Len(n) |-> IF n[i] = "." THEN "-" ELSE n[i]]

lxdfy_name(n) ==
    [i \in 1..Len(n) |-> IF n[i] \in {".", ":"} THEN "-" ELSE n[i]]

\* format!("{}", n) of an unsigned integer
RECURSIVE FormatU32(_)
FormatU32(n) ==
    IF n < 10 THEN <<Digits[n + 1]>>
    ELSE FormatU32(n \div 10) \o <<Digits[(n % 10) + 1]>>

\* format!("{}-{}", sysname, random::<u32>())
NodeName(sysname, rnd) == sysname \o <<"-">> \o FormatU32(rnd)

IsDigit(c) == \E i \in 1..10 : Digits[i] = c
DigitVal(c) == (CHOOSE i \in 1..10 : Digits[i] = c) - 1

RECURSIVE SplitDots(_)
SplitDots(s) ==
    IF \A i \in 1..Len(s) : s[i] # "." THEN <<s>>
    ELSE LET k == CHOOSE i \in 1..Len(s) :
                      s[i] = "." /\ \A j \in 1..(i - 1) : s[j] # "."
         IN <<SubSeq(s, 1, k - 1)>> \o SplitDots(SubSeq(s, k + 1, Len(s)))

RECURSIVE DecVal(_)
DecVal(p) ==
    IF Len(p) = 0 THEN 0
    ELSE DecVal(SubSeq(p, 1, Len(p) - 1)) * 10 + DigitVal(p[Len(p)])

\* one decimal octet: 1 to 3 digits, no leading zero, at most 255
OctetOk(p) ==
    /\ Len(p) \in 1..3
    /\ \A i \in 1..Len(p) : IsDigit(p[i])
    /\ (Len(p) > 1 => p[1] # "0")
    /\ DecVal(p) <= 255

NoIp == <<0, 0, 0, 0>>

\* str::parse::<net::Ipv4Addr>()
ParseIpv4(s) ==
    LET parts == SplitDots(s)
    IN IF Len(parts) = 4 /\ \A i \in 1..4 : OctetOk(parts[i])
       THEN [ok |-> TRUE, ip |-> [i \in 1..4 |-> DecVal(parts[i])]]
       ELSE [ok |-> FALSE, ip |-> NoIp]

----------------------------------------------------------------------------
(* Values *)

\* an address printed with its octets in the opposite order
Ipv4ToString_Reversed(ip) ==
    FormatU32(ip[4]) \o <<".">> \o FormatU32(ip[3]) \o <<".">>
        \o FormatU32(ip[2]) \o <<".">> \o FormatU32(ip[1])

\* Display for Ipv4Addr: the four octets in decimal, joined by dots
Ipv4ToString(ip) ==
    FormatU32(ip[1]) \o <<".">> \o FormatU32(ip[2]) \o <<".">>
        \o FormatU32(ip[3]) \o <<".">> \o FormatU32(ip[4])

Some(x) == [some |-> TRUE, val |-> x]
None == [some |-> FALSE, val |-> <<>>]

NoAddr == [some |-> FALSE, ip |-> NoIp]
SomeAddr(ip) == [some |-> TRUE, ip |-> ip]

NoAlloc == [name |-> <<>>, addr |-> NoIp, ssh_port |-> 0]

\* Result<_, LxdError>: err is the LxdError variant, what the wrapped cause
Pending == [status |-> "pending", err |-> "", what |-> "", key |-> <<>>,
            alloc |-> NoAlloc]
OkUnit == [status |-> "Ok", err |-> "", what |-> "", key |-> <<>>,
           alloc |-> NoAlloc]
OkAlloc(a) == [status |-> "Ok", err |-> "", what |-> "", key |-> <<>>,
               alloc |-> a]
Err(e, w, k) == [status |-> "Err", err |-> e, what |-> w, key |-> k,
                 alloc |-> NoAlloc]

NoNode == [image |-> "", name |-> <<>>, cpu |-> 0, memory |-> 0,
           root_size |-> 0, secure_boot |-> FALSE, provision_steps |-> <<>>]

\* lxc::types::Instance; state.network is an Option of a map from the
\* interface name to its addresses, here a set of [ifname, addresses]
NoNetwork == [some |-> FALSE, ifaces |-> {}]
Network(ifs) == [some |-> TRUE, ifaces |-> ifs]
NoInstance == [name |-> <<>>, status |-> "", network |-> NoNetwork]

----------------------------------------------------------------------------
(* The configuration the allocator was built with *)

Gib(n) == n * 1024

\* SysA and SysC differ only in a character that lxdfy_name replaces; SysA
\* says vm = false, SysC says vm = true
SysA == <<"u", ".", "4">>
SysB == <<"b">>
SysC == <<"u", "-", "4">>
SysUnknown == <<"z">>
StepsBase == <<"s">>
StepsMissing == <<"m">>

SysNames == {SysA, SysB, SysC, SysUnknown}
Users == {"root"}
Passwords == {"pw"}
RandomVals == {7, 70, 8}

\* the configuration document: a field that the document leaves out is None
ConfDoc ==
    [system |->
        (SysA :> [image |-> "ubuntu:24.04", setup_steps |-> Some(StepsBase),
                  resources |-> Some([mem |-> Some(Gib(8)), cpu |-> Some(4),
                                      size |-> Some(Gib(16))]),
                  secure_boot |-> Some(TRUE), vm |-> Some(FALSE)])
        @@ (SysB :> [image |-> "fedora:41", setup_steps |-> Some(StepsMissing),
                  resources |-> None,
                  secure_boot |-> None, vm |-> None])
        @@ (SysC :> [image |-> "debian:12", setup_steps |-> None,
                  resources |-> Some([mem |-> None, cpu |-> None,
                                      size |-> None]),
                  secure_boot |-> None, vm |-> Some(TRUE)]),
     setup |-> (StepsBase :> << <<"apt update">>, <<"apt install snapd">> >>)]

default_mem == Gib(2)
default_cpu == 2
default_root_size == Gib(10)

\* a deserializer that puts the default in place of every value
OrDefault_Always(opt, d) == d

\* #[serde(default ...)]: the value of the document, or the default
OrDefault(opt, d) == IF opt.some THEN opt.val ELSE d

\* impl Default for LxdNodeResources
DefaultResources ==
    [mem |-> default_mem, cpu |-> default_cpu, size |-> default_root_size]

\* Deserialize for LxdNodeResources
DeserializeResources(r) ==
    [mem |-> OrDefault(r.mem, default_mem),
     cpu |-> OrDefault(r.cpu, default_cpu),
     size |-> OrDefault(r.size, default_root_size)]

\* Deserialize for LxdNodeConfig
DeserializeNode(d) ==
    [image |-> d.image,
     setup_steps |-> d.setup_steps,
     resources |-> IF d.resources.some
                   THEN DeserializeResources(d.resources.val)
                   ELSE DefaultResources,
     secure_boot |-> OrDefault(d.secure_boot, FALSE),
     vm |-> OrDefault(d.vm, FALSE)]

\* Deserialize for LxdBackendConfig
LoadedConf ==
    [system |-> [k \in DOMAIN ConfDoc.system |->
                    DeserializeNode(ConfDoc.system[k])],
     setup |-> ConfDoc.setup]

----------------------------------------------------------------------------
(* lxc command lines, as LxcCommandBuilder::build assembles them *)

NoLaunch == [memory |-> 0, cpu |-> 0, secure_boot |-> FALSE, root_size |-> 0,
             image |-> ""]

\* scope "" is LxcCommandScope::Default: no --project prefix
LxcCommand(scope, sub, flags, n, launch, step) ==
    [scope |-> scope, sub |-> sub, flags |-> flags, name |-> n,
     launch |-> launch, step |-> step]

\* LxcCommandBuilder::build: the arguments in front of the subcommand's own,
\* "--project <prj>" for a command with a project scope, nothing otherwise
build(c) ==
    (IF c.scope # "" THEN <<"--project", c.scope>> ELSE <<>>) \o <<c.sub>>

ProjectListCmd ==
    LxcCommand("", "project list", <<"--format=json">>, <<>>, NoLaunch, <<>>)

\* here the name is the project, which is a plain string
ProjectCreateCmd(project) ==
    LxcCommand("", "project create",
               <<"-c", "features.images=false", "-c", "features.profiles=false">>,
               <<project>>, NoLaunch, <<>>)

\* a list command built without with_scope
ListCmd_Unscoped ==
    LxcCommand("", "list", <<"--format=json">>, <<>>, NoLaunch, <<>>)

ListCmd ==
    LxcCommand(LXD_PROJECT_NAME, "list", <<"--format=json">>, <<>>, NoLaunch, <<>>)

ListByNameCmd(n) ==
    LxcCommand(LXD_PROJECT_NAME, "list", <<"--format=json">>, n, NoLaunch, <<>>)

\* a delete that removes the project
DeleteCmd_Project(n) ==
    LxcCommand("", "project delete", <<>>, <<LXD_PROJECT_NAME>>, NoLaunch, <<>>)

DeleteCmd(n) ==
    LxcCommand(LXD_PROJECT_NAME, "delete", <<"--force">>, n, NoLaunch, <<>>)

\* an exec that targets the name as the caller gave it
ExecCmd_RawName(n, step) ==
    LxcCommand(LXD_PROJECT_NAME, "exec", <<"--", "/bin/bash", "-c">>, node.name,
               NoLaunch, step)

ExecCmd(n, step) ==
    LxcCommand(LXD_PROJECT_NAME, "exec", <<"--", "/bin/bash", "-c">>, n,
               NoLaunch, step)

LaunchCmd(nd, n) ==
    LxcCommand(LXD_PROJECT_NAME, "launch", <<"--ephemeral", "--vm">>, n,
               [memory |-> nd.memory, cpu |-> nd.cpu,
                secure_boot |-> nd.secure_boot, root_size |-> nd.root_size,
                image |-> nd.image],
               <<>>)

----------------------------------------------------------------------------
(* The LXD backend *)

Addr5 == <<"1", "0", ".", "0", ".", "0", ".", "5">>
Addr7 == <<"1", "0", ".", "0", ".", "0", ".", "7">>
AddrBad == <<"1", "0", ".", "0", ".", "0", ".", "2", "5", "6">>
AddrLo == <<"1", "2", "7", ".", "0", ".", "0", ".", "1">>
AddrLo6 == <<":", ":", "1">>
AddrLl6 == <<"f", "e", "8", "0", ":", ":", "1">>
AddrNowhere == <<"1", "0", ".", "0", ".", "0", ".", "9">>

Inet(a) == [family |-> "inet", address |-> a]
Inet6(a) == [family |-> "inet6", address |-> a]

\* the network state of an instance that is up: the loopback interface,
\* one interface whose first IPv4 address is malformed, and a second one
NetUp ==
    Network({[ifname |-> "lo",
              addresses |-> <<Inet(AddrLo), Inet6(AddrLo6)>>],
             [ifname |-> "eth0",
              addresses |-> <<Inet6(AddrLl6), Inet(AddrBad), Inet(Addr5),
                              Inet(Addr7)>>],
             [ifname |-> "eth1",
              addresses |-> <<Inet(Addr7)>>]})

\* what an instance can report: status and network state
InstanceStates ==
    { [status |-> "Running", network |-> NoNetwork],
      [status |-> "Running", network |-> NetUp],
      [status |-> "Stopped", network |-> NetUp] }

\* a freshly launched instance is started and has no network state yet
NewInstance(n) == [name |-> n, status |-> "Running", network |-> NoNetwork]

InstanceNames(insts) == {insts[i].name : i \in 1..Len(insts)}

IsPrefix(p, s) == Len(p) <= Len(s) /\ SubSeq(s, 1, Len(p)) = p

\* lxc list <filter>: the instances whose name starts with the filter
FilteredListing(insts, filter) ==
    SelectSeq(insts, LAMBDA i : IsPrefix(filter, i.name))

RemoveByName(insts, n) == SelectSeq(insts, LAMBDA i : i.name # n)

ProjectExists == LXD_PROJECT_NAME \in projects

----------------------------------------------------------------------------
(* Initial state: an idle client, a backend without instances *)

\* the second client before its allocate
OtherIdle == [pc |-> "idle", arg |-> <<>>, node |-> NoNode, name |-> <<>>,
              calls |-> <<>>]

Init ==
    /\ conf = LoadedConf
    /\ other = OtherIdle
    /\ projects \in {{"default"}, {"default", LXD_PROJECT_NAME}}
    /\ instances = <<>>
    /\ op = "none"
    /\ arg = <<>>
    /\ pc = "idle"
    /\ calls = <<>>
    /\ outs = <<>>
    /\ base = 0
    /\ node = NoNode
    /\ name = <<>>
    /\ found = FALSE
    /\ listing = {}
    /\ nodes = <<>>
    /\ instance = NoInstance
    /\ addr = NoAddr
    /\ elapsed = 0
    /\ polls = 0
    /\ idx = 0
    /\ target = None
    /\ result = Pending

----------------------------------------------------------------------------
(* LxdAllocator::allocate: configuration resolution *)

\* a lookup that falls back to a configured system without setup steps
SystemLookup_Defaulted(c, sysname) ==
    IF sysname \in DOMAIN c.system THEN Some(c.system[sysname])
    ELSE Some(c.system[CHOOSE k \in DOMAIN c.system :
                           ~c.system[k].setup_steps.some])

\* self.conf.system.get(sysname)
SystemLookup(c, sysname) ==
    IF sysname \in DOMAIN c.system THEN Some(c.system[sysname]) ELSE None

\* a lookup that takes a dangling reference for no steps at all
StepsLookup_Lenient(c, sysconf) ==
    IF sysconf.setup_steps.some /\ sysconf.setup_steps.val \in DOMAIN c.setup
    THEN [ok |-> TRUE, steps |-> c.setup[sysconf.setup_steps.val]]
    ELSE [ok |-> TRUE, steps |-> <<>>]

\* the step list the system refers to: Err when the reference dangles,
\* the empty list when the system declares none
StepsLookup(c, sysconf) ==
    IF sysconf.setup_steps.some
    THEN IF sysconf.setup_steps.val \in DOMAIN c.setup
         THEN [ok |-> TRUE, steps |-> c.setup[sysconf.setup_steps.val]]
         ELSE [ok |-> FALSE, steps |-> <<>>]
    ELSE [ok |-> TRUE, steps |-> <<>>]

\* format!("echo {}:{} | chpasswd", user, password)
PasswordStep(user, password) == <<"echo ", user, ":", password, " | chpasswd">>

\* steps.clone() followed by steps.push(..)
ComposeSteps(steps, user, password) ==
    Append(steps, PasswordStep(user, password))

NodeDetails(sysconf, n, steps) ==
    [image |-> sysconf.image,
     cpu |-> sysconf.resources.cpu,
     memory |-> sysconf.resources.mem,
     name |-> n,
     root_size |-> sysconf.resources.size,
     secure_boot |-> sysconf.secure_boot,
     provision_steps |-> steps]

\* an allocate that pushes the password step onto the stored step list
Allocate_PushInPlace(sysname, user, password, rnd) ==
    /\ pc = "idle"
    /\ op' = "allocate"
    /\ arg' = sysname
    /\ LET sys == SystemLookup(conf, sysname)
       IN IF ~sys.some
          THEN /\ pc' = "done"
               /\ result' = Err("NotFound", "system", sysname)
               /\ node' = node
               /\ conf' = conf
          ELSE LET st == StepsLookup(conf, sys.val)
               IN IF ~st.ok
                  THEN /\ pc' = "done"
                       /\ result' = Err("NotFound", "setup steps",
                                        sys.val.setup_steps.val)
                       /\ node' = node
                       /\ conf' = conf
                  ELSE /\ pc' = "ensure_list"
                       /\ result' = result
                       /\ conf' = IF sys.val.setup_steps.some
                                  THEN [conf EXCEPT
                                          !.setup[sys.val.setup_steps.val] =
                                             ComposeSteps(st.steps, user,
                                                          password)]
                                  ELSE conf
                       /\ node' = NodeDetails(sys.val, NodeName(sysname, rnd),
                                      ComposeSteps(st.steps, user, password))
    /\ UNCHANGED <<other, backend, calls, outs, base, name, found, listing, nodes,
                   instance, addr, elapsed, polls, idx, target>>

\* LxdAllocator::allocate up to its call of ensure_project: the
\* configuration is resolved, the steps are cloned and the password step is
\* pushed on the clone
Allocate(sysname, user, password, rnd) ==
    /\ pc = "idle"
    /\ op' = "allocate"
    /\ arg' = sysname
    /\ LET sys == SystemLookup(conf, sysname)
       IN IF ~sys.some
          THEN /\ pc' = "done"
               /\ result' = Err("NotFound", "system", sysname)
               /\ node' = node
          ELSE LET st == StepsLookup(conf, sys.val)
               IN IF ~st.ok
                  THEN /\ pc' = "done"
                       /\ result' = Err("NotFound", "setup steps",
                                        sys.val.setup_steps.val)
                       /\ node' = node
                  ELSE /\ pc' = "ensure_list"
                       /\ result' = result
                       /\ node' = NodeDetails(sys.val, NodeName(sysname, rnd),
                                      ComposeSteps(st.steps, user, password))
    /\ UNCHANGED <<conf, other, backend, calls, outs, base, name, found, listing, nodes,
                   instance, addr, elapsed, polls, idx, target>>

----------------------------------------------------------------------------
(* LxdCliAllocator::ensure_project *)

\* the project the running ensure_project was called with
EnsuredProject == IF op = "ensure_project" THEN arg ELSE LXD_PROJECT_NAME

\* a caller other than allocate calls ensure_project
EnsureProject(project) ==
    /\ pc = "idle"
    /\ op' = "ensure_project"
    /\ arg' = project
    /\ pc' = "ensure_list"
    /\ UNCHANGED <<conf, other, backend, calls, outs, locals, result>>

\* a search that reports the opposite
ProjectFound_Negated(list, project) == project \notin list

\* a search that never finds the project
ProjectFound_Never(list, project) == FALSE

\* .iter().find(|p| p.name == project).is_some()
ProjectFound(list, project) == project \in list

\* ensure_project returned Ok(()): allocate goes on to the executor's
\* allocate, a direct caller gets the result
EnsureReturnsOk(ncalls) ==
    IF op = "allocate"
    THEN /\ pc' = "launch"
         /\ base' = ncalls
         /\ result' = result
    ELSE /\ pc' = "done"
         /\ base' = base
         /\ result' = OkUnit

\* a failed project list after which allocate goes on to launch
EnsureListFails_GoesOn ==
    /\ pc' = IF op = "allocate" THEN "launch" ELSE "done"
    /\ result' = IF op = "allocate" THEN result
                 ELSE Err("Executor", "runner", <<>>)

\* the ? after the project list command: its error ends ensure_project,
\* and the ? in allocate ends allocate with it
EnsureListFails ==
    /\ pc' = "done"
    /\ result' = Err("Executor", "runner", <<>>)

\* the project list command and the search in its output
ProjectList ==
    /\ pc = "ensure_list"
    /\ calls' = Append(calls, ProjectListCmd)
    /\ \E ok \in BOOLEAN :
         /\ outs' = Append(outs, ok)
         /\ IF ok
            THEN /\ listing' = projects
                 /\ found' = ProjectFound(projects, EnsuredProject)
                 /\ IF found'
                    THEN EnsureReturnsOk(Len(calls'))
                    ELSE /\ pc' = "ensure_create"
                         /\ UNCHANGED <<base, result>>
            ELSE /\ EnsureListFails
                 /\ UNCHANGED <<listing, found, base>>
    /\ UNCHANGED <<conf, other, backend, op, arg, node, name, nodes, instance, addr,
                   elapsed, polls, idx, target>>

\* an add_project that is tried again when it fails
ProjectCreate_Retry ==
    /\ pc = "ensure_create"
    /\ calls' = Append(calls, ProjectCreateCmd(EnsuredProject))
    /\ \E ok \in BOOLEAN :
         /\ outs' = Append(outs, ok)
         /\ ok => EnsuredProject \notin projects
         /\ IF ok
            THEN /\ projects' = projects \cup {EnsuredProject}
                 /\ EnsureReturnsOk(Len(calls'))
            ELSE /\ projects' = projects
                 /\ pc' = "ensure_create"
                 /\ result' = result
                 /\ base' = base
    /\ UNCHANGED <<conf, other, instances, op, arg, node, name, found, listing, nodes,
                   instance, addr, elapsed, polls, idx, target>>

\* add_project; the backend refuses to create a project that exists
ProjectCreate ==
    /\ pc = "ensure_create"
    /\ calls' = Append(calls, ProjectCreateCmd(EnsuredProject))
    /\ \E ok \in BOOLEAN :
         /\ outs' = Append(outs, ok)
         /\ ok => EnsuredProject \notin projects
         /\ IF ok
            THEN /\ projects' = projects \cup {EnsuredProject}
                 /\ EnsureReturnsOk(Len(calls'))
            ELSE /\ projects' = projects
                 /\ pc' = "done"
                 /\ result' = Err("Executor", "AddProject", <<>>)
                 /\ base' = base
    /\ UNCHANGED <<conf, other, instances, op, arg, node, name, found, listing, nodes,
                   instance, addr, elapsed, polls, idx, target>>

----------------------------------------------------------------------------
(* LxdCliAllocator::allocate *)

\* the backend launches only into an existing project, under a free name
CanLaunch(n) ==
    /\ ProjectExists
    /\ n \notin InstanceNames(instances)
    /\ Len(instances) < MaxInstances

\* a failed launch that is tried again
LaunchFails_Retry ==
    /\ pc' = "launch"
    /\ result' = result

\* the ? after the launch command: its error ends allocate
LaunchFails ==
    /\ pc' = "done"
    /\ result' = Err("Allocate", "runner", <<>>)

\* the launch command
Launch ==
    /\ pc = "launch"
    /\ name' = lxdfy_name(node.name)
    /\ calls' = Append(calls, LaunchCmd(node, name'))
    /\ \E ok \in BOOLEAN :
         /\ outs' = Append(outs, ok)
         /\ ok => CanLaunch(name')
         /\ IF ok
            THEN /\ instances' = Append(instances, NewInstance(name'))
                 /\ pc' = "wait"
                 /\ result' = result
            ELSE /\ instances' = instances
                 /\ LaunchFails
    /\ addr' = NoAddr
    /\ elapsed' = 0
    /\ polls' = 0
    /\ UNCHANGED <<conf, other, projects, op, arg, base, node, found, listing, nodes,
                   instance, idx, target>>

\* the inner loop of wait_for_address over the addresses of one interface:
\* the first one of family inet that parses
RECURSIVE ScanAddresses(_)
ScanAddresses(addresses) ==
    IF Len(addresses) = 0 THEN NoAddr
    ELSE LET parsed == ParseIpv4(Head(addresses).address)
         IN IF Head(addresses).family = "inet" /\ parsed.ok
            THEN SomeAddr(parsed.ip)
            ELSE ScanAddresses(Tail(addresses))

\* an outer loop that does not skip the loopback interface
ScanInterfaces_WithLo(network) ==
    LET hits == {ScanAddresses(i.addresses) : i \in network.ifaces} \ {NoAddr}
    IN IF hits = {} THEN {NoAddr} ELSE hits

\* the outer loop over the interfaces: the map is iterated in no fixed
\* order, the first interface other than lo that yields an address wins
ScanInterfaces(network) ==
    LET hits == {ScanAddresses(i.addresses) :
                    i \in {j \in network.ifaces : j.ifname # "lo"}}
                \ {NoAddr}
    IN IF hits = {} THEN {NoAddr} ELSE hits

\* a loop that checks the timeout also after a poll that found an address
WaitReturnsOk_TimeoutFirst ==
    IF elapsed' > TimeoutMs
    THEN /\ pc' = "done"
         /\ result' = Err("Allocate", "AddressTimeout", <<>>)
    ELSE IF Len(node.provision_steps) = 0
    THEN /\ pc' = "done"
         /\ result' = OkAlloc([name |-> name, addr |-> addr'.ip,
                               ssh_port |-> SshPort])
    ELSE /\ pc' = "provision"
         /\ result' = result

\* wait_for_address found an address: provision follows
WaitReturnsOk ==
    IF Len(node.provision_steps) = 0
    THEN /\ pc' = "done"
         /\ result' = OkAlloc([name |-> name, addr |-> addr'.ip,
                               ssh_port |-> SshPort])
    ELSE /\ pc' = "provision"
         /\ result' = result

\* a check that also rejects a listing of one record
NoneListed_Single(out) == Len(out) <= 1

\* list_node_by_name: nodes.len() == 0
NoneListed(out) == Len(out) = 0

\* a failed poll after which the loop polls again
PollFails_Retry(what) ==
    /\ pc' = "wait"
    /\ result' = result

\* the ? after list_node_by_name: its error ends wait_for_address and
\* allocate
PollFails(what) ==
    /\ pc' = "done"
    /\ result' = Err("Allocate", what, <<>>)

\* one iteration of the loop of wait_for_address: sleep, list by name,
\* scan, check the timeout
Poll ==
    /\ pc = "wait"
    /\ polls < MaxPolls
    /\ polls' = polls + 1
    /\ calls' = Append(calls, ListByNameCmd(name))
    /\ \E d \in CmdDurations : elapsed' = elapsed + SleepMs + d
    /\ \E ok \in BOOLEAN :
         /\ outs' = Append(outs, ok)
         /\ ok => ProjectExists
         /\ LET out == FilteredListing(instances, name)
            IN IF ~ok
               THEN /\ PollFails("ListNodes")
                    /\ UNCHANGED <<instance, addr>>
               ELSE IF NoneListed(out)
               THEN /\ PollFails("NodeNotFound")
                    /\ UNCHANGED <<instance, addr>>
               ELSE /\ instance' = out[1]
                    /\ IF out[1].status # "Running"
                       THEN /\ addr' = addr
                            /\ pc' = "wait"
                            /\ result' = result
                       ELSE \E a \in ScanInterfaces(out[1].network) :
                              /\ addr' = a
                              /\ IF a.some
                                 THEN WaitReturnsOk
                                 ELSE IF elapsed' > TimeoutMs
                                 THEN /\ pc' = "done"
                                      /\ result' = Err("Allocate",
                                                       "AddressTimeout", <<>>)
                                 ELSE /\ pc' = "wait"
                                      /\ result' = result
    /\ idx' = 0
    /\ UNCHANGED <<conf, other, backend, op, arg, base, node, name, found, listing,
                   nodes, target>>

\* the backend runs a command in an instance that exists
CanExec(n) == ProjectExists /\ n \in InstanceNames(instances)

\* a loop that walks the steps backwards
StepAt_Reversed(steps, i) == steps[Len(steps) - i]

\* for step in steps: the step of iteration i, counted from 0
StepAt(steps, i) == steps[i + 1]

\* a failed step that is logged and skipped
ProvisionFails_Ignored ==
    /\ idx' = idx + 1
    /\ IF idx' = Len(node.provision_steps)
       THEN /\ pc' = "done"
            /\ result' = OkAlloc([name |-> name, addr |-> addr.ip,
                                  ssh_port |-> SshPort])
       ELSE /\ pc' = "provision"
            /\ result' = result

\* the ? after the exec of a step: the error ends provision and allocate
ProvisionFails ==
    /\ idx' = idx
    /\ pc' = "done"
    /\ result' = Err("Allocate", "Provision", <<>>)

\* a provision step whose failure deletes the instance again
ProvisionStep_Rollback ==
    /\ pc = "provision"
    /\ \E ok \in BOOLEAN :
         /\ outs' = IF ok THEN Append(outs, ok) ELSE outs \o <<ok, TRUE>>
         /\ ok => CanExec(name)
         /\ IF ok
            THEN /\ calls' = Append(calls,
                          ExecCmd(name, StepAt(node.provision_steps, idx)))
                 /\ instances' = instances
                 /\ idx' = idx + 1
                 /\ IF idx' = Len(node.provision_steps)
                    THEN /\ pc' = "done"
                         /\ result' = OkAlloc([name |-> name, addr |-> addr.ip,
                                               ssh_port |-> SshPort])
                    ELSE /\ pc' = "provision"
                         /\ result' = result
            ELSE /\ calls' = calls \o
                          <<ExecCmd(name, StepAt(node.provision_steps, idx)),
                            DeleteCmd(name)>>
                 /\ instances' = RemoveByName(instances, name)
                 /\ ProvisionFails
    /\ UNCHANGED <<conf, other, projects, op, arg, base, node, name, found, listing,
                   nodes, instance, addr, elapsed, polls, target>>

\* one iteration of the loop of provision; after the last one allocate
\* returns the allocation
ProvisionStep ==
    /\ pc = "provision"
    /\ calls' = Append(calls, ExecCmd(name, StepAt(node.provision_steps, idx)))
    /\ \E ok \in BOOLEAN :
         /\ outs' = Append(outs, ok)
         /\ ok => CanExec(name)
         /\ IF ok
            THEN /\ idx' = idx + 1
                 /\ IF idx' = Len(node.provision_steps)
                    THEN /\ pc' = "done"
                         /\ result' = OkAlloc([name |-> name, addr |-> addr.ip,
                                               ssh_port |-> SshPort])
                    ELSE /\ pc' = "provision"
                         /\ result' = result
            ELSE ProvisionFails
    /\ UNCHANGED <<conf, other, backend, op, arg, base, node, name, found, listing,
                   nodes, instance, addr, elapsed, polls, target>>

----------------------------------------------------------------------------
(* LxdCliAllocator::deallocate_by_addr, deallocate_all *)

\* a closure that filters as wait_for_address does: no "lo", inet only
HasMatch_AsTheWait(inst, a) ==
    \E i \in inst.network.ifaces :
        /\ i.ifname # "lo"
        /\ \E k \in 1..Len(i.addresses) :
             /\ i.addresses[k].family = "inet"
             /\ i.addresses[k].address = a

\* the closure of deallocate_by_addr: some interface has an address whose
\* string equals addr
HasMatch(inst, a) ==
    \E i \in inst.network.ifaces :
        \E k \in 1..Len(i.addresses) : i.addresses[k].address = a

\* a search that does not look at the status
RECURSIVE FindByAddr_AnyStatus(_, _)
FindByAddr_AnyStatus(ns, a) ==
    IF Len(ns) = 0 THEN None
    ELSE IF HasMatch(Head(ns), a)
         THEN Some(Head(ns).name)
         ELSE FindByAddr_AnyStatus(Tail(ns), a)

\* a search that keeps looking and returns the last match
RECURSIVE FindByAddr_Last(_, _)
FindByAddr_Last(ns, a) ==
    IF Len(ns) = 0 THEN None
    ELSE LET rest == FindByAddr_Last(Tail(ns), a)
         IN IF rest.some THEN rest
            ELSE IF Head(ns).status = "Running" /\ HasMatch(Head(ns), a)
                 THEN Some(Head(ns).name)
                 ELSE None

\* the loop of deallocate_by_addr: the name of the first Running instance
\* with a match
RECURSIVE FindByAddr(_, _)
FindByAddr(ns, a) ==
    IF Len(ns) = 0 THEN None
    ELSE IF Head(ns).status = "Running" /\ HasMatch(Head(ns), a)
         THEN Some(Head(ns).name)
         ELSE FindByAddr(Tail(ns), a)

\* the backend deletes an instance that exists
CanDelete(n) == ProjectExists /\ n \in InstanceNames(instances)

\* deallocate_by_addr up to the delete: list_nodes and the search
DeallocateByAddr(a) ==
    /\ pc = "idle"
    /\ op' = "deallocate_by_addr"
    /\ arg' = a
    /\ calls' = Append(calls, ListCmd)
    /\ \E ok \in BOOLEAN :
         /\ outs' = Append(outs, ok)
         /\ ok => ProjectExists
         /\ IF ok
            THEN /\ nodes' = instances
                 /\ target' = FindByAddr(nodes', a)
                 /\ IF target'.some
                    THEN /\ pc' = "delete_one"
                         /\ result' = result
                    ELSE /\ pc' = "done"
                         /\ result' = Err("NotFound", "address", a)
            ELSE /\ pc' = "done"
                 /\ result' = Err("Deallocate", "ListNodes", <<>>)
                 /\ UNCHANGED <<nodes, target>>
    /\ UNCHANGED <<conf, other, backend, base, node, name, found, listing, instance,
                   addr, elapsed, polls, idx>>

\* a delete whose failure is reported as NotFound
DeleteOne_NotFound ==
    /\ pc = "delete_one"
    /\ calls' = Append(calls, DeleteCmd(target.val))
    /\ pc' = "done"
    /\ \E ok \in BOOLEAN :
         /\ outs' = Append(outs, ok)
         /\ ok => CanDelete(target.val)
         /\ IF ok
            THEN /\ instances' = RemoveByName(instances, target.val)
                 /\ result' = OkUnit
            ELSE /\ instances' = instances
                 /\ result' = Err("NotFound", "address", arg)
    /\ UNCHANGED <<conf, other, projects, op, arg, locals>>

\* deallocate_by_name(name) of deallocate_by_addr
DeleteOne ==
    /\ pc = "delete_one"
    /\ calls' = Append(calls, DeleteCmd(target.val))
    /\ pc' = "done"
    /\ \E ok \in BOOLEAN :
         /\ outs' = Append(outs, ok)
         /\ ok => CanDelete(target.val)
         /\ IF ok
            THEN /\ instances' = RemoveByName(instances, target.val)
                 /\ result' = OkUnit
            ELSE /\ instances' = instances
                 /\ result' = Err("Deallocate", "DeleteNode", <<>>)
    /\ UNCHANGED <<conf, other, projects, op, arg, locals>>

\* deallocate_all up to the first delete: list_nodes
DeallocateAll ==
    /\ pc = "idle"
    /\ op' = "deallocate_all"
    /\ calls' = Append(calls, ListCmd)
    /\ \E ok \in BOOLEAN :
         /\ outs' = Append(outs, ok)
         /\ ok => ProjectExists
         /\ IF ok
            THEN /\ nodes' = instances
                 /\ IF Len(nodes') = 0
                    THEN /\ pc' = "done"
                         /\ result' = OkUnit
                    ELSE /\ pc' = "delete_all"
                         /\ result' = result
            ELSE /\ nodes' = nodes
                 /\ pc' = "done"
                 /\ result' = Err("Deallocate", "ListNodes", <<>>)
    /\ UNCHANGED <<conf, other, backend, arg, base, node, name, found, listing,
                   instance, addr, elapsed, polls, idx, target>>

\* a failed delete that is skipped, the loop going on with the next node
DeleteFails_Skipped ==
    /\ instances' = instances
    /\ idx' = idx + 1
    /\ IF idx' = Len(nodes)
       THEN /\ pc' = "done"
            /\ result' = OkUnit
       ELSE /\ pc' = "delete_all"
            /\ result' = result

\* the ? after deallocate_by_name in the loop: the error ends deallocate_all
DeleteFails ==
    /\ instances' = instances
    /\ idx' = idx
    /\ pc' = "done"
    /\ result' = Err("Deallocate", "DeleteNode", <<>>)

\* one iteration of the loop of deallocate_all
DeleteNext ==
    /\ pc = "delete_all"
    /\ calls' = Append(calls, DeleteCmd(nodes[idx + 1].name))
    /\ \E ok \in BOOLEAN :
         /\ outs' = Append(outs, ok)
         /\ ok => CanDelete(nodes[idx + 1].name)
         /\ IF ok
            THEN /\ instances' = RemoveByName(instances, nodes[idx + 1].name)
                 /\ idx' = idx + 1
                 /\ IF idx' = Len(nodes)
                    THEN /\ pc' = "done"
                         /\ result' = OkUnit
                    ELSE /\ pc' = "delete_all"
                         /\ result' = result
            ELSE DeleteFails
    /\ UNCHANGED <<conf, other, projects, op, arg, base, node, name, found, listing,
                   nodes, instance, addr, elapsed, polls, target>>

----------------------------------------------------------------------------
(* The caller and the backend *)

\* the operation has returned; the caller may start the next one
Return ==
    /\ pc = "done"
    /\ pc' = "idle"
    /\ op' = "none"
    /\ arg' = <<>>
    /\ calls' = <<>>
    /\ outs' = <<>>
    /\ base' = 0
    /\ node' = NoNode
    /\ name' = <<>>
    /\ found' = FALSE
    /\ listing' = {}
    /\ nodes' = <<>>
    /\ instance' = NoInstance
    /\ addr' = NoAddr
    /\ elapsed' = 0
    /\ polls' = 0
    /\ idx' = 0
    /\ target' = None
    /\ result' = Pending
    /\ UNCHANGED <<conf, other, backend>>

\* an instance boots, stops, gets or loses addresses
BackendChange ==
    /\ \E i \in 1..Len(instances), s \in InstanceStates :
         /\ [status |-> instances[i].status,
             network |-> instances[i].network] # s
         /\ instances' = [instances EXCEPT ![i].status = s.status,
                                           ![i].network = s.network]
    /\ UNCHANGED <<conf, other, projects, op, arg, pc, calls, outs, locals, result>>

\* an ephemeral instance that stopped is removed by the backend
BackendVanish ==
    /\ \E i \in 1..Len(instances) :
         /\ instances[i].status = "Stopped"
         /\ instances' = RemoveByName(instances, instances[i].name)
    /\ UNCHANGED <<conf, other, projects, op, arg, pc, calls, outs, locals, result>>

Addresses == {Addr5, AddrLo, AddrLl6, AddrNowhere}

Next ==
    \/ \E sysname \in SysNames, user \in Users, password \in Passwords,
          rnd \in RandomVals : Allocate(sysname, user, password, rnd)
    \/ EnsureProject(LXD_PROJECT_NAME)
    \/ ProjectList
    \/ ProjectCreate
    \/ Launch
    \/ Poll
    \/ ProvisionStep
    \/ \E a \in Addresses : DeallocateByAddr(a)
    \/ DeleteOne
    \/ DeallocateAll
    \/ DeleteNext
    \/ Return
    \/ BackendChange
    \/ BackendVanish

Spec == Init /\ [][Next]_vars

-----------------------------------------------------------------------------
(* Two client processes on one backend: each runs LxdAllocator::allocate  *)
(* with its own engine; the second one is followed up to its launch, its  *)
(* polls and provisioning steps leave the backend as it is. The instances *)
(* are looked at while they boot: none has an address yet.                *)

\* LxdAllocator::allocate of the second client up to ensure_project
OtherAllocate(sysname, user, password, rnd) ==
    /\ other.pc = "idle"
    /\ LET sys == SystemLookup(conf, sysname)
           st == StepsLookup(conf, sys.val)
       IN IF ~sys.some \/ ~st.ok
          THEN other' = [other EXCEPT !.pc = "done", !.arg = sysname]
          ELSE other' = [other EXCEPT
                           !.pc = "ensure_list",
                           !.arg = sysname,
                           !.node = NodeDetails(sys.val,
                                       NodeName(sysname, rnd),
                                       ComposeSteps(st.steps, user, password))]
    /\ UNCHANGED <<conf, backend, op, arg, pc, calls, outs, locals, result>>

\* ensure_project of the second client: the project list command
OtherProjectList ==
    /\ other.pc = "ensure_list"
    /\ \E ok \in BOOLEAN :
         other' = [other EXCEPT
                     !.calls = Append(@, ProjectListCmd),
                     !.pc = IF ~ok THEN "done"
                            ELSE IF ProjectFound(projects, LXD_PROJECT_NAME)
                            THEN "launch"
                            ELSE "ensure_create"]
    /\ UNCHANGED <<conf, backend, op, arg, pc, calls, outs, locals, result>>

\* ensure_project of the second client: add_project
OtherProjectCreate ==
    /\ other.pc = "ensure_create"
    /\ \E ok \in BOOLEAN :
         /\ ok => LXD_PROJECT_NAME \notin projects
         /\ projects' = IF ok THEN projects \cup {LXD_PROJECT_NAME}
                        ELSE projects
         /\ other' = [other EXCEPT
                        !.calls = Append(@, ProjectCreateCmd(LXD_PROJECT_NAME)),
                        !.pc = IF ok THEN "launch" ELSE "done"]
    /\ UNCHANGED <<conf, instances, op, arg, pc, calls, outs, locals, result>>

\* LxdCliAllocator::allocate of the second client: the launch command
OtherLaunch ==
    /\ other.pc = "launch"
    /\ LET n == lxdfy_name(other.node.name)
       IN \E ok \in BOOLEAN :
            /\ ok => CanLaunch(n)
            /\ instances' = IF ok THEN Append(instances, NewInstance(n))
                             ELSE instances
            /\ other' = [other EXCEPT
                           !.name = n,
                           !.calls = Append(@, LaunchCmd(other.node, n)),
                           !.pc = IF ok THEN "launched" ELSE "done"]
    /\ UNCHANGED <<conf, projects, op, arg, pc, calls, outs, locals, result>>

TwoNext ==
    \/ \E sysname \in SysNames, user \in Users, password \in Passwords,
          rnd \in RandomVals : Allocate(sysname, user, password, rnd)
    \/ ProjectList
    \/ ProjectCreate
    \/ Launch
    \/ Poll
    \/ Return
    \/ \E sysname \in SysNames, user \in Users, password \in Passwords,
          rnd \in RandomVals : OtherAllocate(sysname, user, password, rnd)
    \/ OtherProjectList
    \/ OtherProjectCreate
    \/ OtherLaunch

SpecTwo == Init /\ [][TwoNext]_vars

-----------------------------------------------------------------------------
(* Round trip: the caller prints the address of an allocation and later   *)
(* hands that text to deallocate_by_addr                                  *)

\* deallocate_by_addr(addr.to_string()) for the allocation just returned, up
\* to the delete; name and addr still hold what allocate returned
RoundTrip ==
    /\ pc = "done"
    /\ op = "allocate"
    /\ result.status = "Ok"
    /\ op' = "deallocate_by_addr"
    /\ arg' = Ipv4ToString(result.alloc.addr)
    /\ calls' = <<ListCmd>>
    /\ \E ok \in BOOLEAN :
         /\ outs' = <<ok>>
         /\ ok => ProjectExists
         /\ IF ok
            THEN /\ nodes' = instances
                 /\ target' = FindByAddr(nodes', arg')
                 /\ IF target'.some
                    THEN /\ pc' = "delete_one"
                         /\ result' = Pending
                    ELSE /\ pc' = "done"
                         /\ result' = Err("NotFound", "address", arg')
            ELSE /\ pc' = "done"
                 /\ result' = Err("Deallocate", "ListNodes", <<>>)
                 /\ UNCHANGED <<nodes, target>>
    /\ UNCHANGED <<conf, other, backend, base, node, name, found, listing,
                   instance, addr, elapsed, polls, idx>>

RoundNext ==
    \/ \E sysname \in {SysA, SysC}, user \in Users, password \in Passwords,
          rnd \in RandomVals : Allocate(sysname, user, password, rnd)
    \/ ProjectList
    \/ ProjectCreate
    \/ Launch
    \/ Poll
    \/ ProvisionStep
    \/ RoundTrip
    \/ DeleteOne
    \/ Return
    \/ BackendChange

SpecRound == Init /\ [][RoundNext]_vars

\* the engine in front of a backend that does not have the project yet:
\* there every project the listing shows was created by an earlier call
FreshInit ==
    /\ Init
    /\ LXD_PROJECT_NAME \notin projects

SpecFresh == FreshInit /\ [][Next]_vars

----------------------------------------------------------------------------
(* Properties *)

\* the commands of the executor's allocate, without those of ensure_project
AllocCalls == SubSeq(calls, base + 1, Len(calls))
AllocOuts == SubSeq(outs, base + 1, Len(outs))

\* the commands of ensure_project, called directly or by allocate
EnsureCalls == IF base > 0 THEN SubSeq(calls, 1, base) ELSE calls
EnsureReturnedOk ==
    \/ op = "ensure_project" /\ pc = "done" /\ result = OkUnit
    \/ op = "allocate" /\ base > 0
EnsureReturned ==
    \/ op = "ensure_project" /\ pc = "done"
    \/ op = "allocate" /\ base > 0
    \/ op = "allocate" /\ pc = "done" /\ result.err = "Executor"

ExecCalls == SelectSeq(calls, LAMBDA c : c.sub = "exec")
Subs(cs) == [i \in 1..Len(cs) |-> cs[i].sub]

\* C1: allocate with a system name that is not a key of the configuration
\* returns NotFound and has handed no command at all to the runner.
C1_UnknownSystemNotFound ==
    (op = "allocate" /\ arg \notin DOMAIN conf.system) =>
        /\ pc = "done"
        /\ result.status = "Err"
        /\ result.err = "NotFound"
        /\ calls = <<>>

C1_Witness ==
    /\ op = "allocate"
    /\ arg = <<"z">>
    /\ pc = "done"
    /\ result.err = "NotFound"

\* C2: allocate for a known system whose setup-steps reference names no
\* step list of the configuration returns NotFound and has handed no
\* command to the runner: no project list or create, no launch.
C2_MissingStepListNotFound ==
    (/\ op = "allocate"
     /\ arg \in DOMAIN conf.system
     /\ conf.system[arg].setup_steps.some
     /\ conf.system[arg].setup_steps.val \notin DOMAIN conf.setup) =>
        /\ pc = "done"
        /\ result.status = "Err"
        /\ result.err = "NotFound"
        /\ result.key = conf.system[arg].setup_steps.val
        /\ calls = <<>>

C2_Witness ==
    /\ op = "allocate"
    /\ arg = <<"b">>
    /\ pc = "done"
    /\ result.err = "NotFound"
    /\ result.what = "setup steps"

\* C3: no command carrying the project scope (launch, list, exec, delete)
\* is issued while the project does not exist, whichever public operation
\* issues it.
C3_ProjectBeforeScopedCommand ==
    [][(/\ Len(calls') = Len(calls) + 1
        /\ calls'[Len(calls')].scope = "spread-adhoc")
       => "spread-adhoc" \in projects]_vars

\* C4: when the launch succeeds, the first poll reports the instance Running
\* with a usable address and all k provisioning steps succeed, the commands
\* of the executor's allocate are one scoped launch, one scoped list
\* filtered by the instance name and k scoped execs, the i-th running the
\* i-th step, and the result is that address with port 22.
C4_AllocateCommandSequence ==
    (/\ op = "allocate"
     /\ pc = "done"
     /\ polls = 1
     /\ addr.some
     /\ \A i \in 1..Len(AllocOuts) : AllocOuts[i]) =>
        LET k == Len(node.provision_steps)
        IN /\ Subs(AllocCalls) = <<"launch", "list">> \o [i \in 1..k |-> "exec"]
           /\ \A i \in 1..Len(AllocCalls) :
                /\ AllocCalls[i].scope = "spread-adhoc"
                /\ AllocCalls[i].name = name
           /\ \A i \in 1..k : AllocCalls[2 + i].step = node.provision_steps[i]
           /\ result.status = "Ok"
           /\ result.alloc = [name |-> name, addr |-> addr.ip, ssh_port |-> 22]
           /\ \E f \in instance.network.ifaces :
                /\ f.ifname # "lo"
                /\ \E j \in 1..Len(f.addresses) :
                     /\ f.addresses[j].family = "inet"
                     /\ ParseIpv4(f.addresses[j].address).ip = result.alloc.addr

C4_Witness ==
    /\ op = "allocate"
    /\ pc = "done"
    /\ polls = 1
    /\ result.status = "Ok"
    /\ result.alloc.addr = <<10, 0, 0, 5>>
    /\ Len(node.provision_steps) = 3
    /\ Len(AllocCalls) = 5

\* C5: in wait_for_address, once the elapsed time exceeds the timeout and
\* the last poll has yielded no usable address, polling has ended: the loop
\* is never about to sleep and poll again.
C5_TimeoutEndsPolling ==
    (pc = "wait" /\ polls > 0) => elapsed <= 60000

\* C6: an address wait_for_address returns was reported, in the poll that
\* returned it, by an instance with status Running, on an interface other
\* than lo, as the first address of that interface that has family inet and
\* parses as IPv4; an inet address before it that does not parse is skipped.
C6_AddressFromRunningInet ==
    addr.some =>
        /\ instance.status = "Running"
        /\ \E i \in instance.network.ifaces :
             /\ i.ifname # "lo"
             /\ \E k \in 1..Len(i.addresses) :
                  /\ i.addresses[k].family = "inet"
                  /\ ParseIpv4(i.addresses[k].address).ok
                  /\ ParseIpv4(i.addresses[k].address).ip = addr.ip
                  /\ \A j \in 1..(k - 1) :
                       \/ i.addresses[j].family # "inet"
                       \/ ~ParseIpv4(i.addresses[j].address).ok

\* the address found comes after an inet address that does not parse
C6_Witness ==
    /\ addr.some
    /\ addr.ip = <<10, 0, 0, 5>>
    /\ pc = "provision"
    /\ \E i \in instance.network.ifaces :
         /\ i.addresses[2].family = "inet"
         /\ ~ParseIpv4(i.addresses[2].address).ok
         /\ ParseIpv4(i.addresses[3].address).ip = addr.ip

\* C7: provision issues one exec per step, in list order; when the exec of
\* step j fails it is the last exec, allocate returns an Allocate error, and
\* the steps before j were executed once each.
C7_ProvisionStopsAtFailure ==
    op = "allocate" =>
        /\ Len(ExecCalls) <= Len(node.provision_steps)
        /\ \A i \in 1..Len(ExecCalls) :
             /\ ExecCalls[i].step = node.provision_steps[i]
             /\ ExecCalls[i].name = name
        /\ \A i \in 1..Len(calls) :
             (calls[i].sub = "exec" /\ ~outs[i]) =>
                /\ i = Len(calls)
                /\ pc = "done"
                /\ result.status = "Err"
                /\ result.err = "Allocate"

\* the second of three steps failed
C7_Witness ==
    /\ op = "allocate"
    /\ pc = "done"
    /\ result.what = "Provision"
    /\ Len(ExecCalls) = 2
    /\ Len(node.provision_steps) = 3
    /\ ~outs[Len(outs)]

\* C8: no step of allocate issues a delete command or removes an instance
\* from the backend: what was launched is still there when allocate returns
\* an error.
C8_AllocateNeverDeletes ==
    [][(op' = "allocate" /\ calls' # calls) =>
          /\ calls'[Len(calls')].sub # "delete"
          /\ InstanceNames(instances) \subseteq InstanceNames(instances')]_vars

\* allocate has failed after its launch and the instance is in the backend
C8_Witness ==
    /\ op = "allocate"
    /\ pc = "done"
    /\ result.status = "Err"
    /\ result.what \in {"Provision", "AddressTimeout"}
    /\ name \in InstanceNames(instances)

\* C9: ensure_project(p) issues exactly one project list command, without
\* scope; when p is in the listing it issues nothing else and returns Ok;
\* when p is not, it then issues exactly one project create for p with
\* -c features.images=false -c features.profiles=false.
C9_EnsureProjectCommands ==
    EnsureReturned =>
        /\ Len(EnsureCalls) >= 1
        /\ EnsureCalls[1].scope = ""
        /\ EnsureCalls[1].sub = "project list"
        /\ \A i \in 2..Len(EnsureCalls) : EnsureCalls[i].sub # "project list"
        /\ outs[1] =>
             IF EnsuredProject \in listing
             THEN Len(EnsureCalls) = 1 /\ EnsureReturnedOk
             ELSE /\ Len(EnsureCalls) = 2
                  /\ EnsureCalls[2].scope = ""
                  /\ EnsureCalls[2].sub = "project create"
                  /\ EnsureCalls[2].name = <<EnsuredProject>>
                  /\ EnsureCalls[2].flags =
                        <<"-c", "features.images=false",
                          "-c", "features.profiles=false">>

\* both cases: the project was listed, the project was created
C9_Witness ==
    /\ op = "ensure_project"
    /\ pc = "done"
    /\ result = OkUnit
    /\ Len(calls) = 2
    /\ "spread-adhoc" \notin listing
    /\ "spread-adhoc" \in projects

\* C10: deallocate_by_addr(addr), when no instance of the listing is Running
\* and reports an address equal to addr, returns NotFound(addr) after the
\* list command alone: no delete, also not of an instance that reports addr
\* without being Running.
C10_NoMatchNotFound ==
    (/\ op = "deallocate_by_addr"
     /\ outs[1]
     /\ ~\E i \in 1..Len(nodes) :
           /\ nodes[i].status = "Running"
           /\ \E f \in nodes[i].network.ifaces :
                \E k \in 1..Len(f.addresses) : f.addresses[k].address = arg) =>
        /\ pc = "done"
        /\ result.status = "Err"
        /\ result.err = "NotFound"
        /\ result.key = arg
        /\ Subs(calls) = <<"list">>

\* an instance that is not Running reports the address and is left alone
C10_Witness ==
    /\ op = "deallocate_by_addr"
    /\ pc = "done"
    /\ result.err = "NotFound"
    /\ \E i \in 1..Len(nodes) :
         /\ nodes[i].status = "Stopped"
         /\ HasMatch(nodes[i], arg)
         /\ nodes[i].name \in InstanceNames(instances)

\* the instance of the listing ns at position i is Running and reports a
RunningMatch(ns, i, a) ==
    /\ ns[i].status = "Running"
    /\ \E f \in ns[i].network.ifaces :
         \E k \in 1..Len(f.addresses) : f.addresses[k].address = a

\* C11: deallocate_by_addr(addr) issues one listing and after it at most one
\* delete: delete --force of the first instance, in listing order, that is
\* Running and reports addr; the step that deletes it removes no other
\* instance, so further Running instances with the same address remain.
C11_DeletesFirstMatchOnly ==
    /\ [](op = "deallocate_by_addr" =>
            /\ Len(calls) \in 1..2
            /\ calls[1].sub = "list"
            /\ Len(calls) = 2 =>
                 /\ calls[2].scope = "spread-adhoc"
                 /\ calls[2].sub = "delete"
                 /\ calls[2].flags = <<"--force">>
                 /\ \E i \in 1..Len(nodes) :
                      /\ RunningMatch(nodes, i, arg)
                      /\ \A j \in 1..(i - 1) : ~RunningMatch(nodes, j, arg)
                      /\ calls[2].name = nodes[i].name)
    /\ [][(op = "deallocate_by_addr" /\ Len(calls) = 1 /\ Len(calls') = 2) =>
            /\ InstanceNames(instances) \ {calls'[2].name}
                  \subseteq InstanceNames(instances')
            /\ outs'[2] => calls'[2].name \notin InstanceNames(instances')]_vars

\* two Running instances report the address; the first one is gone, the
\* second one is still there
C11_Witness ==
    /\ op = "deallocate_by_addr"
    /\ pc = "done"
    /\ result = OkUnit
    /\ Len(nodes) = 2
    /\ RunningMatch(nodes, 1, arg)
    /\ RunningMatch(nodes, 2, arg)
    /\ nodes[1].name \notin InstanceNames(instances)
    /\ nodes[2].name \in InstanceNames(instances)

\* C12: deallocate_all, given a listing of N instances of any status, issues
\* one delete --force per instance name in listing order and returns Ok
\* after exactly N deletes; when the k-th delete fails it is the last
\* command, the result is a Deallocate error, and the step removes no
\* instance, so those after the k-th are left in the backend.
C12_DeallocateAllInOrder ==
    /\ [](op = "deallocate_all" /\ outs[1] =>
            /\ Len(calls) <= 1 + Len(nodes)
            /\ \A i \in 2..Len(calls) :
                 /\ calls[i].scope = "spread-adhoc"
                 /\ calls[i].sub = "delete"
                 /\ calls[i].flags = <<"--force">>
                 /\ calls[i].name = nodes[i - 1].name
                 /\ ~outs[i] =>
                      /\ i = Len(calls)
                      /\ pc = "done"
                      /\ result.status = "Err"
                      /\ result.err = "Deallocate"
            /\ (pc = "done" /\ \A i \in 1..Len(outs) : outs[i]) =>
                 /\ Len(calls) = 1 + Len(nodes)
                 /\ result = OkUnit
            /\ (pc = "done" /\ result = OkUnit) => \A i \in 1..Len(outs) : outs[i])
    /\ [][(op = "deallocate_all" /\ Len(calls) >= 1
           /\ Len(calls') = Len(calls) + 1) =>
            /\ InstanceNames(instances) \ {calls'[Len(calls')].name}
                  \subseteq InstanceNames(instances')
            /\ ~outs'[Len(outs')] => instances' = instances]_vars

\* the first delete of two failed: one delete issued, the second instance
\* is still in the backend
C12_Witness ==
    /\ op = "deallocate_all"
    /\ pc = "done"
    /\ result.err = "Deallocate"
    /\ Len(nodes) = 2
    /\ Len(calls) = 2
    /\ ~outs[2]
    /\ nodes[2].name \in InstanceNames(instances)

-----------------------------------------------------------------------------
(* lxdfy_name on its own: every name over NameChars up to MaxNameLen *)

NameChars == {"a", "4", ".", ":", "-"}

NameInputs == UNION {[1..n -> NameChars] : n \in 0..MaxNameLen}

\* a caller holding a name x
NamesInit ==
    /\ conf = LoadedConf
    /\ other = OtherIdle
    /\ projects = {"default"}
    /\ instances = <<>>
    /\ op = "lxdfy_name"
    /\ arg \in NameInputs
    /\ pc = "idle"
    /\ calls = <<>>
    /\ outs = <<>>
    /\ base = 0
    /\ node = NoNode
    /\ name = <<>>
    /\ found = FALSE
    /\ listing = {}
    /\ nodes = <<>>
    /\ instance = NoInstance
    /\ addr = NoAddr
    /\ elapsed = 0
    /\ polls = 0
    /\ idx = 0
    /\ target = None
    /\ result = Pending

\* name = lxdfy_name(x)
LxdfyOnce ==
    /\ pc = "idle"
    /\ name' = lxdfy_name(arg)
    /\ pc' = "once"
    /\ UNCHANGED <<conf, other, backend, op, arg, calls, outs, base, node, found,
                   listing, nodes, instance, addr, elapsed, polls, idx, target,
                   result>>

\* target = lxdfy_name(lxdfy_name(x))
LxdfyTwice ==
    /\ pc = "once"
    /\ target' = Some(lxdfy_name(name))
    /\ pc' = "twice"
    /\ UNCHANGED <<conf, other, backend, op, arg, calls, outs, base, node, name, found,
                   listing, nodes, instance, addr, elapsed, polls, idx, result>>

NamesNext == LxdfyOnce \/ LxdfyTwice

SpecNames == NamesInit /\ [][NamesNext]_vars

\* C13: lxdfy_name maps every '.' and every ':' of its input to '-', leaves
\* every other character and the length unchanged, and applying it to its
\* own output changes nothing.
C13_LxdfyNameMapsAndIsIdempotent ==
    /\ pc \in {"once", "twice"} =>
         /\ Len(name) = Len(arg)
         /\ \A i \in 1..Len(arg) :
              /\ arg[i] \in {".", ":"} => name[i] = "-"
              /\ arg[i] \notin {".", ":"} => name[i] = arg[i]
    /\ pc = "twice" => (target.some /\ target.val = name)

\* "a.:" became "a--", and stayed "a--" on the second application
C13_Witness ==
    /\ pc = "twice"
    /\ arg = <<"a", ".", ":">>
    /\ name = <<"a", "-", "-">>
    /\ target = Some(<<"a", "-", "-">>)

\* the name given by the caller, with '.' and ':' replaced
SafeName == [i \in 1..Len(node.name) |->
                IF node.name[i] = "." \/ node.name[i] = ":" THEN "-"
                ELSE node.name[i]]

\* C14: within one backend allocate the launch command, the list command of
\* every poll and the exec command of every provisioning step carry the
\* same name, the caller's name with every '.' and ':' replaced by '-'; the
\* returned allocation carries that name too and ssh_port 22.
C14_OneSafeNameThroughout ==
    (op = "allocate" /\ base > 0) =>
        /\ \A k \in 1..Len(SafeName) : SafeName[k] \notin {".", ":"}
        /\ \A i \in (base + 1)..Len(calls) :
             /\ calls[i].sub \in {"launch", "list", "exec"}
             /\ calls[i].name = SafeName
        /\ (pc = "done" /\ result.status = "Ok") =>
             /\ result.alloc.name = SafeName
             /\ result.alloc.ssh_port = 22

\* system "u.4" was allocated as "u-4-7" after a launch, a poll and an exec
C14_Witness ==
    /\ op = "allocate"
    /\ arg = <<"u", ".", "4">>
    /\ pc = "done"
    /\ result.status = "Ok"
    /\ result.alloc.name = <<"u", "-", "4", "-", "7">>
    /\ \A s \in {"launch", "list", "exec"} :
         \E i \in (base + 1)..Len(calls) : calls[i].sub = s

\* C15: the provisioning list handed to the backend is the step list the
\* system refers to, in its order, followed by one step
\* "echo <user>:<password> | chpasswd" (that step alone for a system with no
\* setup steps); the step list stored in the configuration keeps its
\* contents, so every allocation of a system gets a list of the same length.
C15_StepsClonedThenPassword ==
    /\ conf.setup = (<<"s">> :> << <<"apt update">>, <<"apt install snapd">> >>)
    /\ (op = "allocate" /\ pc # "idle" /\ arg = <<"u", ".", "4">>) =>
          node.provision_steps =
              << <<"apt update">>, <<"apt install snapd">>,
                 <<"echo ", "root", ":", "pw", " | chpasswd">> >>
    /\ (op = "allocate" /\ pc # "idle" /\ arg = <<"u", "-", "4">>) =>
          node.provision_steps =
              << <<"echo ", "root", ":", "pw", " | chpasswd">> >>

\* an allocation of "u.4" that follows an earlier allocation (its instance
\* is in the backend) was handed three steps as well
C15_Witness ==
    /\ op = "allocate"
    /\ arg = <<"u", ".", "4">>
    /\ pc = "done"
    /\ result.status = "Ok"
    /\ Len(node.provision_steps) = 3
    /\ Len(instances) = 2

\* C16: in one allocate the launch command is issued at most once and each
\* provisioning step at most once, in the order of the list; a launch that
\* fails is the last command, allocate returns an Allocate error, and no
\* list or exec command was issued.
C16_NoRetryButThePoll ==
    op = "allocate" =>
        /\ Cardinality({i \in 1..Len(calls) : calls[i].sub = "launch"}) <= 1
        /\ Len(ExecCalls) <= Len(node.provision_steps)
        /\ \A k \in 1..Len(ExecCalls) :
             ExecCalls[k].step = node.provision_steps[k]
        /\ \A i \in 1..Len(calls) :
             (calls[i].sub = "launch" /\ ~outs[i]) =>
                 /\ i = Len(calls)
                 /\ pc = "done"
                 /\ result.status = "Err"
                 /\ result.err = "Allocate"
                 /\ \A j \in 1..Len(calls) : calls[j].sub \notin {"list", "exec"}

\* the launch failed: it is the last command and the result is the error
C16_Witness ==
    /\ op = "allocate"
    /\ pc = "done"
    /\ result.err = "Allocate"
    /\ result.what = "runner"
    /\ Len(calls) > 0
    /\ calls[Len(calls)].sub = "launch"
    /\ ~outs[Len(outs)]

\* C18: a project that is in the backend stays there: no step removes a
\* project, every command is one of project list, project create, launch,
\* list, exec and delete, and a delete is scoped to the project and names an
\* instance of the listing.
C18_ProjectsAreNeverDeleted ==
    /\ [][projects \subseteq projects']_vars
    /\ [](\A i \in 1..Len(calls) :
            /\ calls[i].sub \in {"project list", "project create", "launch",
                                 "list", "exec", "delete"}
            /\ calls[i].sub = "delete" =>
                 /\ calls[i].scope = "spread-adhoc"
                 /\ calls[i].name # <<"spread-adhoc">>
                 /\ \E k \in 1..Len(nodes) : nodes[k].name = calls[i].name)

\* deallocate_all deleted two instances and the project is still there
C18_Witness ==
    /\ op = "deallocate_all"
    /\ pc = "done"
    /\ result = OkUnit
    /\ Len(calls) = 3
    /\ instances = <<>>
    /\ "spread-adhoc" \in projects

\* C20: list_nodes, given an empty listing, returns success with no record
\* after one scoped list command (deallocate_all then returns Ok and
\* deallocate_by_addr NotFound), whereas list_node_by_name returns
\* NodeNotFound exactly when its filtered listing is empty; NodeNotFound is
\* never the outcome of list_nodes.
C20_EmptyListingVersusNodeNotFound ==
    /\ []((op \in {"deallocate_all", "deallocate_by_addr"} /\ Len(calls) >= 1
           /\ outs[1] /\ nodes = <<>>) =>
            /\ Len(calls) = 1
            /\ calls[1].scope = "spread-adhoc"
            /\ calls[1].sub = "list"
            /\ calls[1].name = <<>>
            /\ pc = "done"
            /\ op = "deallocate_all" => result = OkUnit
            /\ op = "deallocate_by_addr" =>
                 (result.status = "Err" /\ result.err = "NotFound"))
    /\ [](result.what = "NodeNotFound" =>
            /\ op = "allocate"
            /\ pc = "done"
            /\ result.err = "Allocate"
            /\ calls[Len(calls)].sub = "list"
            /\ calls[Len(calls)].name # <<>>
            /\ outs[Len(outs)])
    /\ [][(pc = "wait" /\ Len(calls') = Len(calls) + 1 /\ outs'[Len(outs')]) =>
            (result'.what = "NodeNotFound"
                <=> Len(FilteredListing(instances, name)) = 0)]_vars

\* deallocate_all on an empty project returned Ok after one list command
C20_Witness ==
    /\ op = "deallocate_all"
    /\ pc = "done"
    /\ result = OkUnit
    /\ nodes = <<>>
    /\ Len(calls) = 1
    /\ outs[1]

\* C19: ensure_project(p) that returned Ok leaves p in the backend, and a
\* call of ensure_project(p) on a backend that has p changes nothing in the
\* backend and issues the project list command only, returning Ok when the
\* command succeeds: a second call in a row adds nothing to the first.
C19_EnsureProjectIdempotent ==
    /\ [](EnsureReturnedOk => EnsuredProject \in projects)
    /\ [][(op = "ensure_project" /\ pc = "ensure_list" /\ arg \in projects
           /\ calls' # calls) =>
            /\ projects' = projects
            /\ instances' = instances
            /\ Len(calls') = 1
            /\ calls'[1].sub = "project list"
            /\ outs'[1] => (pc' = "done" /\ result' = OkUnit)]_vars
    /\ [](op = "ensure_project" =>
            \A i \in 1..Len(calls) :
               calls[i].sub = "project create" =>
                  (i = 2 /\ outs[1] /\ arg \notin listing))

\* the backend started without the project; this call found it, created by
\* an earlier call, and returned Ok after the list command alone
C19_Witness ==
    /\ op = "ensure_project"
    /\ pc = "done"
    /\ result = OkUnit
    /\ found
    /\ arg \in projects
    /\ Len(calls) = 1
    /\ calls[1].sub = "project list"

\* C17: two allocations of the same system name, one after the other or
\* interleaved, never derive the same instance name: whenever both clients
\* have issued their launch command for the same system, the two commands
\* name different instances.
C17_NamesNeverCollide ==
    (op = "allocate" /\ arg = other.arg) =>
        \A i \in 1..Len(calls), j \in 1..Len(other.calls) :
            (calls[i].sub = "launch" /\ other.calls[j].sub = "launch") =>
                calls[i].name # other.calls[j].name

\* C21: list_node_by_name(name), when it succeeds, returns the record of the
\* instance whose name is exactly name: the instance a poll of allocate looks
\* at, and so the instance whose address allocate returns, is the one that
\* allocate launched.
C21_PolledInstanceIsTheLaunchedOne ==
    (op = "allocate" /\ instance # NoInstance) => instance.name = name

\* the positions of the project create commands in a sequence of commands
Creates(cs) == {i \in 1..Len(cs) : cs[i].sub = "project create"}

\* C22: ensure_project lists and then creates in two separate commands, so
\* two clients may both list before either creates and then both create; one
\* invocation issues at most one create, as its second command, after a list
\* of its own that succeeded and did not show the project, and a client that
\* is past such a list issues the create whatever the other one did meanwhile.
C22_CreateRaceAndSingleCreate ==
    /\ [](/\ Creates(calls) \subseteq {2}
          /\ Creates(other.calls) \subseteq {2}
          /\ Creates(calls) # {} =>
               /\ calls[1].sub = "project list"
               /\ outs[1]
               /\ "spread-adhoc" \notin listing
          /\ Creates(other.calls) # {} =>
               other.calls[1].sub = "project list")
    /\ [][(other.pc = "ensure_create" /\ other' # other) =>
            /\ Len(other'.calls) = 2
            /\ other'.calls[2].sub = "project create"]_vars
    /\ [][(pc = "ensure_create" /\ calls' # calls) =>
            /\ Len(calls') = 2
            /\ calls'[2].sub = "project create"]_vars

\* both clients listed a backend without the project and both issued the
\* create: the one of the first client made the project, the one of the
\* second client was refused
C22_Witness ==
    /\ op = "allocate"
    /\ Creates(calls) = {2}
    /\ outs[2]
    /\ Creates(other.calls) = {2}
    /\ other.pc = "done"
    /\ "spread-adhoc" \in projects

\* C23: every launch, list, delete and exec command starts with
\* --project spread-adhoc, and every project list and project create command
\* carries no --project prefix.
C23_CommandsScopedConsistently ==
    \A i \in 1..Len(calls) :
        /\ calls[i].sub \in {"launch", "list", "delete", "exec"} =>
             build(calls[i]) = <<"--project", "spread-adhoc", calls[i].sub>>
        /\ calls[i].sub \in {"project list", "project create"} =>
             build(calls[i]) = <<calls[i].sub>>

\* an allocate that created the project, launched, polled and provisioned
C23_Witness ==
    /\ op = "allocate"
    /\ pc = "done"
    /\ result.status = "Ok"
    /\ Len(calls) >= 5
    /\ calls[1].sub = "project list"
    /\ calls[2].sub = "project create"
    /\ calls[3].sub = "launch"
    /\ calls[4].sub = "list"
    /\ calls[Len(calls)].sub = "exec"

\* some command of the operation failed
SomeFailed == \E i \in 1..Len(outs) : ~outs[i]

\* C24: each operation reports failures in its own error class. A failure
\* of the backend allocate (launch, address wait, timeout, provisioning) is
\* an Allocate error; a failed list or delete of deallocate_by_addr or
\* deallocate_all is a Deallocate error; a failed list or create of
\* ensure_project is an Executor error, also inside allocate; NotFound is
\* returned only for an unknown system, an unknown step list, or an address
\* that no Running instance of the listing reports.
C24_ErrorClassPerOperation ==
    /\ (pc = "done" /\ SomeFailed) => result.status = "Err"
    /\ result.status = "Err" =>
         /\ pc = "done"
         /\ op = "allocate" =>
              /\ result.err \in {"NotFound", "Executor", "Allocate"}
              /\ result.err = "Allocate" <=> base > 0
              /\ result.err = "Executor" <=> (base = 0 /\ SomeFailed)
              /\ result.err = "NotFound" =>
                   /\ calls = <<>>
                   /\ \/ arg \notin DOMAIN conf.system
                      \/ /\ conf.system[arg].setup_steps.some
                         /\ conf.system[arg].setup_steps.val
                               \notin DOMAIN conf.setup
         /\ op \in {"deallocate_by_addr", "deallocate_all"} =>
              /\ result.err \in {"NotFound", "Deallocate"}
              /\ result.err = "Deallocate" <=> SomeFailed
              /\ result.err = "NotFound" =>
                   /\ op = "deallocate_by_addr"
                   /\ Len(calls) = 1
                   /\ \A i \in 1..Len(nodes) : ~RunningMatch(nodes, i, arg)
         /\ op = "ensure_project" =>
              /\ result.err = "Executor"
              /\ SomeFailed

\* the delete of deallocate_by_addr failed and the error is Deallocate
C24_Witness ==
    /\ op = "deallocate_by_addr"
    /\ pc = "done"
    /\ Len(calls) = 2
    /\ ~outs[2]
    /\ result.status = "Err"
    /\ result.err = "Deallocate"

\* the launch commands of the operation
Launches == {i \in 1..Len(calls) : calls[i].sub = "launch"}

-----------------------------------------------------------------------------
(* LxcCommandRunner::run on its own: one call, every outcome of the process *)

ErrChars == {"e", " ", "\n"}
Whitespace == {" ", "\n"}
ExitCodes == {None, Some(0), Some(1), Some(255)}
Stdouts == {<<>>, <<"[", "]">>}
Stderrs == UNION {[1..n -> ErrChars] : n \in 0..MaxErrLen}

\* what cmd.output() gives: the process did not start, or it ran and left a
\* status (code None: ended by a signal), its stdout and its stderr
ProcessOutcomes ==
    [started : BOOLEAN, code : ExitCodes, stdout : Stdouts, stderr : Stderrs]

RECURSIVE TrimStart(_)
TrimStart(s) ==
    IF Len(s) > 0 /\ Head(s) \in Whitespace THEN TrimStart(Tail(s)) ELSE s

RECURSIVE TrimEnd(_)
TrimEnd(s) ==
    IF Len(s) > 0 /\ s[Len(s)] \in Whitespace
    THEN TrimEnd(SubSeq(s, 1, Len(s) - 1))
    ELSE s

\* a trim that leaves the end as it is
trim_StartOnly(s) == TrimStart(s)

\* str::trim
trim(s) == TrimEnd(TrimStart(s))

RunOk(stdout) == [status |-> "Ok", stdout |-> stdout]
RunStart == [status |-> "Err", err |-> "Start"]
RunExecution(stderr, code) ==
    [status |-> "Err", err |-> "Execution", stderr |-> stderr,
     exit_code |-> code]

\* res.status.success()
Success(out) == out.code = Some(0)

\* the result of run for an outcome of cmd.output()
run(out) ==
    IF ~out.started THEN RunStart
    ELSE IF ~Success(out)
    THEN RunExecution(trim(out.stderr),
                      IF out.code.some THEN out.code.val ELSE 255)
    ELSE RunOk(out.stdout)

\* a caller about to call run; arg is what the process will do
RunnerInit ==
    /\ conf = LoadedConf
    /\ other = OtherIdle
    /\ projects = {"default"}
    /\ instances = <<>>
    /\ op = "run"
    /\ arg \in ProcessOutcomes
    /\ pc = "idle"
    /\ calls = <<>>
    /\ outs = <<>>
    /\ base = 0
    /\ node = NoNode
    /\ name = <<>>
    /\ found = FALSE
    /\ listing = {}
    /\ nodes = <<>>
    /\ instance = NoInstance
    /\ addr = NoAddr
    /\ elapsed = 0
    /\ polls = 0
    /\ idx = 0
    /\ target = None
    /\ result = Pending

\* LxcCommandRunner::run: cmd.output() spawns the process once; calls grows
\* by the command spawned
RunnerRun ==
    /\ pc = "idle"
    /\ pc' = "done"
    /\ calls' = Append(calls, ListCmd)
    /\ outs' = Append(outs, arg.started /\ Success(arg))
    /\ result' = run(arg)
    /\ UNCHANGED <<conf, other, backend, op, arg, locals>>

RunnerNext == RunnerRun

SpecRunner == RunnerInit /\ [][RunnerNext]_vars

\* C26: run starts one subprocess per call and returns its stdout if and
\* only if the process exits with success; a process that cannot start
\* yields Start; a process that exits without success yields Execution with
\* the stderr stripped of the whitespace at its two ends and the exit code,
\* 255 when the process has none.
C26_RunnerOutcome ==
    /\ pc = "idle" => calls = <<>>
    /\ pc = "done" =>
         /\ Len(calls) = 1
         /\ result.status = "Ok" <=> (arg.started /\ arg.code = Some(0))
         /\ result.status = "Ok" => result.stdout = arg.stdout
         /\ ~arg.started => result = [status |-> "Err", err |-> "Start"]
         /\ (arg.started /\ arg.code # Some(0)) =>
              /\ result.err = "Execution"
              /\ result.exit_code =
                    IF arg.code.some THEN arg.code.val ELSE 255
              /\ \E i \in 1..(Len(arg.stderr) + 1), j \in 0..Len(arg.stderr) :
                   /\ result.stderr = SubSeq(arg.stderr, i, j)
                   /\ \A k \in 1..(i - 1) : arg.stderr[k] \in {" ", "\n"}
                   /\ \A k \in (j + 1)..Len(arg.stderr) :
                        arg.stderr[k] \in {" ", "\n"}
              /\ Len(result.stderr) > 0 =>
                   /\ result.stderr[1] \notin {" ", "\n"}
                   /\ result.stderr[Len(result.stderr)] \notin {" ", "\n"}

\* a process ended by a signal with stderr " e\n": Execution, "e", 255
C26_Witness ==
    /\ pc = "done"
    /\ arg.started
    /\ arg.code = None
    /\ arg.stderr = <<" ", "e", "\n">>
    /\ result = [status |-> "Err", err |-> "Execution", stderr |-> <<"e">>,
                 exit_code |-> 255]

\* C27: during the address wait a poll whose list command fails, or whose
\* filtered listing is empty, ends the wait at once: allocate returns an
\* Allocate error, that list command is its last command, no exec command
\* was issued, and the timeout plays no part.
C27_FailedPollEndsWait ==
    /\ [][(op = "allocate" /\ pc = "wait" /\ calls' # calls
           /\ (~outs'[Len(outs')]
               \/ Len(FilteredListing(instances, name)) = 0)) =>
            /\ pc' = "done"
            /\ result'.status = "Err"
            /\ result'.err = "Allocate"
            /\ result'.what \in {"ListNodes", "NodeNotFound"}]_vars
    /\ []((op = "allocate" /\ base > 0) =>
            \A i \in (base + 1)..Len(calls) :
                (calls[i].sub = "list" /\ ~outs[i]) =>
                    /\ i = Len(calls)
                    /\ pc = "done"
                    /\ result.err = "Allocate")
    /\ []((op = "allocate" /\ pc = "done"
           /\ result.what \in {"ListNodes", "NodeNotFound"}) =>
            /\ calls[Len(calls)].sub = "list"
            /\ ExecCalls = <<>>)

\* the instance was gone at the second poll, 1000 ms into the wait
C27_Witness ==
    /\ op = "allocate"
    /\ pc = "done"
    /\ result.err = "Allocate"
    /\ result.what = "NodeNotFound"
    /\ polls = 2
    /\ elapsed = 1000
    /\ ExecCalls = <<>>

\* C28: in wait_for_address every poll is preceded by the 500 ms sleep, and
\* the timeout is looked at only after a poll that found no address:
\* AddressTimeout is returned after at least one list command, the last one
\* having succeeded without giving an address, and a poll that gives an
\* address ends the wait with it even when more than the timeout has passed.
C28_SleepThenPollThenTimeout ==
    /\ [](op = "allocate" => elapsed >= 500 * polls)
    /\ [](result.what = "AddressTimeout" =>
            /\ op = "allocate"
            /\ pc = "done"
            /\ polls >= 1
            /\ calls[Len(calls)].sub = "list"
            /\ outs[Len(outs)]
            /\ ~addr.some
            /\ elapsed > 60000)
    /\ [][(op = "allocate" /\ pc = "wait" /\ calls' # calls /\ addr'.some) =>
            /\ pc' \in {"provision", "done"}
            /\ pc' = "done" =>
                 (result'.status = "Ok" /\ result'.alloc.addr = addr'.ip)
            /\ pc' = "provision" => result' = result]_vars

\* the third poll gave the address more than 60 s into the wait, and
\* allocate returned it
C28_Witness ==
    /\ op = "allocate"
    /\ pc = "done"
    /\ result.status = "Ok"
    /\ addr.some
    /\ result.alloc.addr = addr.ip
    /\ polls = 3
    /\ elapsed > 60000

\* C29: round trip. After allocate returned (name, addr),
\* deallocate_by_addr(addr.to_string()) is called with the dotted decimal
\* text of addr; when its listing shows the instance name Running with that
\* text among its addresses and no Running instance before it reports the
\* same text, it issues one delete, delete --force name, and returns Ok when
\* the delete succeeds.
C29_RoundTripDeletesTheAllocation ==
    op = "deallocate_by_addr" =>
        /\ ParseIpv4(arg) = [ok |-> TRUE, ip |-> addr.ip]
        /\ (outs[1]
            /\ \E i \in 1..Len(nodes) :
                 /\ nodes[i].name = name
                 /\ RunningMatch(nodes, i, arg)
                 /\ \A j \in 1..(i - 1) : ~RunningMatch(nodes, j, arg)) =>
               \/ /\ pc = "delete_one"
                  /\ Len(calls) = 1
               \/ /\ pc = "done"
                  /\ Len(calls) = 2
                  /\ calls[2].sub = "delete"
                  /\ calls[2].flags = <<"--force">>
                  /\ calls[2].name = name
                  /\ outs[2] <=> result = OkUnit
                  /\ outs[2] => name \notin InstanceNames(instances)

\* the instance allocated as "u-4-7" with 10.0.0.5 was deleted by the
\* deallocation of "10.0.0.5", the second of two instances of the listing
C29_Witness ==
    /\ op = "deallocate_by_addr"
    /\ pc = "done"
    /\ result = OkUnit
    /\ name = <<"u", "-", "4", "-", "7">>
    /\ addr.ip = <<10, 0, 0, 5>>
    /\ Len(nodes) = 2
    /\ nodes[2].name = name
    /\ calls[2].name = name

\* C30: when a command of ensure_project fails during allocate it is the
\* last command of that allocate and allocate returns the Executor error: a
\* failed project list is followed by no create and no launch, a failed
\* project create by no launch.
C30_EnsureFailureEndsAllocate ==
    op = "allocate" =>
        \A i \in 1..Len(calls) :
            (calls[i].sub \in {"project list", "project create"} /\ ~outs[i]) =>
                /\ i = Len(calls)
                /\ pc = "done"
                /\ result.status = "Err"
                /\ result.err = "Executor"
                /\ \A j \in 1..Len(calls) : calls[j].sub # "launch"
                /\ calls[i].sub = "project list" =>
                     \A j \in 1..Len(calls) : calls[j].sub # "project create"

\* the project create of an allocate failed: two commands, Executor
C30_Witness ==
    /\ op = "allocate"
    /\ pc = "done"
    /\ result.err = "Executor"
    /\ Len(calls) = 2
    /\ calls[2].sub = "project create"
    /\ ~outs[2]

\* the instance of the listing ns at position i is Running and reports a on
\* its loopback interface only, or as an inet6 address only
OffWaitMatch(ns, i, a) ==
    /\ ns[i].status = "Running"
    /\ \E f \in ns[i].network.ifaces :
         \E k \in 1..Len(f.addresses) : f.addresses[k].address = a
    /\ \/ \A f \in ns[i].network.ifaces :
            (\E k \in 1..Len(f.addresses) : f.addresses[k].address = a)
                => f.ifname = "lo"
       \/ \A f \in ns[i].network.ifaces :
            \A k \in 1..Len(f.addresses) :
                f.addresses[k].address = a => f.addresses[k].family = "inet6"

\* C31: deallocate_by_addr matches an address on any interface and of any
\* family: an address that a Running instance of the listing reports only
\* on "lo", or only as an inet6 address, selects the first such instance for
\* deletion and is never answered with NotFound, although the address wait
\* never returns such an address.
C31_DeallocateMatchesAnyInterfaceAndFamily ==
    /\ (op = "deallocate_by_addr" /\ outs[1]
        /\ \E i \in 1..Len(nodes) : OffWaitMatch(nodes, i, arg)) =>
           /\ target.some
           /\ \E i \in 1..Len(nodes) :
                /\ OffWaitMatch(nodes, i, arg)
                /\ \A j \in 1..(i - 1) : nodes[j].status = "Running" =>
                     ~OffWaitMatch(nodes, j, arg)
                /\ target.val = nodes[i].name
           /\ result.err # "NotFound"
           /\ Len(calls) = 2 =>
                (calls[2].sub = "delete" /\ calls[2].name = target.val)
    /\ (op = "allocate" /\ addr.some) =>
           addr.ip \in {<<10, 0, 0, 5>>, <<10, 0, 0, 7>>}

\* deallocate_by_addr("127.0.0.1") deleted a Running instance, which
\* reports that address on lo
C31_Witness ==
    /\ op = "deallocate_by_addr"
    /\ arg = <<"1", "2", "7", ".", "0", ".", "0", ".", "1">>
    /\ pc = "done"
    /\ result = OkUnit
    /\ Len(calls) = 2
    /\ calls[2].sub = "delete"
    /\ calls[2].name = nodes[1].name
    /\ OffWaitMatch(nodes, 1, arg)

====
